---- MODULE Spec2Model ----
(***************************************************************************)
(* Coordinated motion control of the two-axis gantry: the single-axis      *)
(* stepper driver (src/motor/stepper_motor.py), the dual-axis coordinator  *)
(* (src/motor/motor_controller.py), the electromagnet                      *)
(* (src/motor/electromagnet.py) and the pigpio wave generator              *)
(* (src/motor/pigpio_wave.py).                                             *)
(*                                                                         *)
(* One caller thread runs the public operations to completion, one after   *)
(* the other; pc is its position.  emergency_stop() is the only operation  *)
(* that another execution context may run while an operation is in flight. *)
(* Durations are whole microseconds.                                       *)
(***************************************************************************)
EXTENDS Integers, Sequences, FiniteSets, TLC

VARIABLES
    current_position,   \* StepperMotor.current_position, per axis
    is_homed,           \* StepperMotor.is_homed, per axis
    is_enabled,         \* StepperMotor.is_enabled, per axis
    step_delay,         \* StepperMotor.step_delay, per axis (microseconds)
    is_on,              \* Electromagnet.is_on
    wave_generator,     \* MotorController.wave_generator is not None
    enable_acceleration,\* MotorController.enable_acceleration
    pc,                 \* position of the caller thread
    loc,                \* locals of the operation in flight
    result,             \* how the last operation ended
    events,             \* generate_coordinated_wave: the merged step events
    wv,                 \* _send_wave_in_chunks: its locals
    attempts,           \* _send_wave_in_chunks calls of this generate call
    connects,           \* _connect calls of this generate call
    sent,               \* the waves this _send_wave_in_chunks call has sent
    live_waves,         \* waves this operation created and has not deleted
    pulses,             \* step pulses issued per axis since the operation began
    dir_writes,         \* direction levels written per axis since it began
    pre,                \* the axes' fields when the operation began
    stopped,            \* emergency_stop() returned while it was in flight
    profile             \* the last calculate_step_delay call and its outcome

vars == <<current_position, is_homed, is_enabled, step_delay, is_on,
          wave_generator, enable_acceleration, pc, loc, result, events, wv,
          attempts, connects, sent, live_waves, pulses, dir_writes, pre,
          stopped, profile>>

\* The wave generator's side of the state.
waveVars == <<events, wv, attempts, connects, sent, live_waves>>

axisVars == <<current_position, is_homed, is_enabled, step_delay>>

Axes == {"X", "Y"}

\* Travel of each axis in steps (max_position), scaled down.
MaxPosX == 3
MaxPosY == 2

max_position == [a \in Axes |-> IF a = "X" THEN MaxPosX ELSE MaxPosY]

\* Construction defaults, in microseconds.
default_step_delay == 2000
step_pulse_duration == 1000
home_step_delay == 5000
min_step_delay == 800
max_step_delay == 4000
accel_steps == 50

invert_direction == [a \in Axes |-> a = "Y"]

Abs(n) == IF n < 0 THEN -n ELSE n

Max(a, b) == IF a > b THEN a ELSE b

Min(a, b) == IF a < b THEN a ELSE b

\* Requests reach one step past either end of an axis's travel.
Deltas(a) == (0 - (max_position[a] + 1)) .. (max_position[a] + 1)

Targets(a) == -1 .. (max_position[a] + 1)

StepCounts(a) == 0 .. (max_position[a] + 1)

\* A ramp of the full configured length, however short the move.
EffectiveAccelStepsFull(accel, total_steps) == accel

\* calculate_step_delay: min(accel_steps, total_steps // 2)
EffectiveAccelSteps(accel, total_steps) == Min(accel, total_steps \div 2)

(***************************************************************************)
(* StepperMotor.calculate_step_delay: the trapezoidal profile, interpolated*)
(* in speed.  With speeds 1/max_delay and 1/min_delay and ratio k/e the    *)
(* delay 1/(min_speed + (max_speed - min_speed)*k/e) is                    *)
(* max*min*e / (min*e + (max - min)*k); ramp-down likewise.                *)
(***************************************************************************)
calculate_step_delay(step_number, total_steps, min_delay, max_delay, accel) ==
    LET effective_accel_steps == EffectiveAccelSteps(accel, total_steps)
        steps_into_decel == step_number - (total_steps - effective_accel_steps)
    IN  IF step_number < effective_accel_steps
        THEN (max_delay * min_delay * effective_accel_steps)
               \div (min_delay * effective_accel_steps
                       + (max_delay - min_delay) * step_number)
        ELSE IF step_number >= total_steps - effective_accel_steps
        THEN (max_delay * min_delay * effective_accel_steps)
               \div (max_delay * effective_accel_steps
                       - (max_delay - min_delay) * steps_into_decel)
        ELSE min_delay

(***************************************************************************)
(* calculate_step_delay again, its value kept exact as the fraction        *)
(* num / den, and the ZeroDivisionError that "steps_into_decel /           *)
(* effective_accel_steps" raises when the ramp length is 0.                *)
(***************************************************************************)
StepDelayRatio(step_number, total_steps, min_delay, max_delay, accel) ==
    LET effective_accel_steps == EffectiveAccelSteps(accel, total_steps)
        steps_into_decel == step_number - (total_steps - effective_accel_steps)
    IN  IF step_number < effective_accel_steps
        THEN [outcome |-> "value",
              num |-> max_delay * min_delay * effective_accel_steps,
              den |-> min_delay * effective_accel_steps
                        + (max_delay - min_delay) * step_number]
        ELSE IF step_number >= total_steps - effective_accel_steps
        THEN IF effective_accel_steps = 0
             THEN [outcome |-> "ZeroDivisionError", num |-> 0, den |-> 1]
             ELSE [outcome |-> "value",
                   num |-> max_delay * min_delay * effective_accel_steps,
                   den |-> max_delay * effective_accel_steps
                             - (max_delay - min_delay) * steps_into_decel]
        ELSE [outcome |-> "value", num |-> min_delay, den |-> 1]

\* StepperMotor._set_direction: the level written to the direction pin.
SetDirectionLevel(a, direction) ==
    IF invert_direction[a] THEN 1 - direction ELSE direction

\* The endstop of one homing run: pressed once k pulses were issued, never
\* pressed, or erratic (any reading at any sample).
Endstops(a) ==
    {[kind |-> "after", k |-> k] : k \in 0 .. max_position[a]}
        \cup {[kind |-> "never", k |-> 0], [kind |-> "erratic", k |-> 0]}

\* The readings _home_device.is_pressed can give after n pulses.
IsPressedReadings(endstop, n) ==
    CASE endstop.kind = "after" -> {n >= endstop.k}
      [] endstop.kind = "never" -> {FALSE}
      [] OTHER -> BOOLEAN

\* No endstop is sampled (no homing loop is running).
NoEndstop == [kind |-> "none", k |-> 0]

NoLocals ==
    [op |-> "none", axis |-> "X", home_all |-> FALSE,
     steps |-> 0, direction |-> 0,
     steps_taken |-> 0, endstop |-> NoEndstop, original_step_delay |-> 0,
     dx |-> 0, dy |-> 0, abs_dx |-> 0, abs_dy |-> 0, x_dir |-> 0, y_dir |-> 0,
     target_x |-> 0, target_y |-> 0, error |-> 0, i |-> 0,
     x_step_count |-> 0, y_step_count |-> 0,
     original_x_delay |-> 0, original_y_delay |-> 0,
     gpio_available |-> FALSE, is_pressed |-> FALSE,
     endstop_pressed |-> FALSE]

\* _send_wave_in_chunks before its loop: last_time, pulses, all_pins; idx is
\* the position of the for loop in events, final marks the flush after it,
\* lowered holds the pins the closing loop has written LOW, created and
\* deleted count the waves this call has created and deleted.
NoWave == [idx |-> 1, last_time |-> 0, pulses |-> <<>>, all_pins |-> {},
           final |-> FALSE, lowered |-> {}, created |-> 0, deleted |-> 0]

NoPulses == [a \in Axes |-> 0]

NoWrites == [a \in Axes |-> <<>>]

NoPre == [pos |-> [a \in Axes |-> 0], homed |-> [a \in Axes |-> FALSE],
          enabled |-> [a \in Axes |-> TRUE],
          delay |-> [a \in Axes |-> 0], on |-> FALSE]

Snapshot == [pos |-> current_position, homed |-> is_homed,
             enabled |-> is_enabled,
             delay |-> step_delay, on |-> is_on]

\* No calculate_step_delay call has been observed.
NoProfile ==
    [step_number |-> 0, total_steps |-> 0, min_delay |-> 0, max_delay |-> 0,
     accel_steps |-> 0, effective_accel_steps |-> 0, outcome |-> "none",
     num |-> 0, den |-> 1]

\* StepperMotor.__init__, Electromagnet.__init__, MotorController.__init__
Constructed ==
    /\ current_position = [a \in Axes |-> 0]
    /\ is_homed = [a \in Axes |-> FALSE]
    /\ is_enabled = [a \in Axes |-> TRUE]
    /\ step_delay = [a \in Axes |-> default_step_delay]
    /\ is_on = FALSE
    /\ profile = NoProfile
    /\ pc = "idle"
    /\ loc = NoLocals
    /\ result = "none"
    /\ pulses = NoPulses
    /\ dir_writes = NoWrites
    /\ pre = NoPre
    /\ stopped = FALSE
    /\ events = <<>>
    /\ wv = NoWave
    /\ attempts = 0
    /\ connects = 0
    /\ sent = <<>>
    /\ live_waves = 0

\* What the operations outside the wave generator leave alone.
config == <<wave_generator, enable_acceleration, profile, waveVars>>

\* An operation begins: the caller leaves idle.
Begin(op) ==
    /\ pc = "idle"
    /\ pre' = Snapshot
    /\ UNCHANGED <<config, stopped>>

\* An operation ends with outcome r.
End(r) ==
    /\ pc' = "done"
    /\ result' = r


ghostVars == <<pulses, dir_writes>>

\* StepperMotor.enable
Enable(a) ==
    /\ pc = "idle"
    /\ is_enabled' = [is_enabled EXCEPT ![a] = TRUE]
    /\ UNCHANGED <<current_position, is_homed, step_delay, is_on, config, pc,
                   loc, result, ghostVars, pre, stopped>>

\* StepperMotor.disable
Disable(a) ==
    /\ pc = "idle"
    /\ is_enabled' = [is_enabled EXCEPT ![a] = FALSE]
    /\ UNCHANGED <<current_position, is_homed, step_delay, is_on, config, pc,
                   loc, result, ghostVars, pre, stopped>>

\* MotorController.magnet_on -> Electromagnet.on
MagnetOn ==
    /\ pc = "idle"
    /\ is_on' = TRUE
    /\ UNCHANGED <<axisVars, config, pc, loc, result, ghostVars, pre, stopped>>

\* MotorController.magnet_off -> Electromagnet.off
MagnetOff ==
    /\ pc = "idle"
    /\ is_on' = FALSE
    /\ UNCHANGED <<axisVars, config, pc, loc, result, ghostVars, pre, stopped>>

\* MotorController.magnet_toggle -> Electromagnet.toggle
MagnetToggle ==
    /\ pc = "idle"
    /\ is_on' = IF is_on THEN FALSE ELSE TRUE
    /\ UNCHANGED <<axisVars, config, pc, loc, result, ghostVars, pre, stopped>>

\* What get_status can meet: GPIO_AVAILABLE, and with it the reading of
\* _home_device.is_pressed (no device is read without GPIO).
StatusInputs == {<<TRUE, TRUE>>, <<TRUE, FALSE>>, <<FALSE, FALSE>>}

\* StepperMotor.get_status on axis a: the "endstop_pressed" entry of the
\* dict it returns, "not self._home_device.is_pressed if GPIO_AVAILABLE
\* else False".
GetStatus(a, gpio_available, is_pressed) ==
    /\ Begin("get_status")
    /\ loc' = [NoLocals EXCEPT
                 !.op = "get_status", !.axis = a,
                 !.gpio_available = gpio_available,
                 !.is_pressed = is_pressed,
                 !.endstop_pressed =
                     IF gpio_available THEN ~is_pressed ELSE FALSE]
    /\ End("ok")
    /\ UNCHANGED <<axisVars, is_on, ghostVars>>

\* A validation that checks the lower limit only.
ValidateMoveNoUpper(a, steps, direction) ==
    ~(direction = 0 /\ current_position[a] - steps < 0)

\* StepperMotor._validate_move: TRUE when no ValueError is raised.
ValidateMove(a, steps, direction) ==
    /\ ~(direction = 1 /\ current_position[a] + steps > max_position[a])
    /\ ~(direction = 0 /\ current_position[a] - steps < 0)

\* StepperMotor._update_position
UpdatedPosition(a, steps, direction) ==
    IF direction = 1 THEN current_position[a] + steps
                     ELSE current_position[a] - steps

\* A move that never looks at is_enabled.
IsDisabledNever(a) == FALSE

\* StepperMotor.move: "if not self.is_enabled"
IsDisabled(a) == ~is_enabled[a]

\* The body of StepperMotor.move(steps, direction) on axis a.  The loop
\* "for _ in range(steps)" does not run for steps <= 0.
MoveBody(a, steps, direction) ==
    IF IsDisabled(a)
    THEN /\ End("Disabled")
         /\ UNCHANGED <<current_position, ghostVars>>
    ELSE IF ~ValidateMove(a, steps, direction)
    THEN /\ End("OutOfBounds")
         /\ UNCHANGED <<current_position, ghostVars>>
    ELSE /\ dir_writes' = [dir_writes EXCEPT
                             ![a] = Append(@, SetDirectionLevel(a, direction))]
         /\ pulses' = [pulses EXCEPT ![a] = @ + Max(steps, 0)]
         /\ current_position' = [current_position EXCEPT
                                   ![a] = UpdatedPosition(a, steps, direction)]
         /\ End("ok")

\* StepperMotor.move
Move(a, steps, direction) ==
    /\ Begin("move")
    /\ loc' = [NoLocals EXCEPT !.op = "move", !.axis = a, !.steps = steps,
                                !.direction = direction]
    /\ MoveBody(a, steps, direction)
    /\ UNCHANGED <<is_homed, is_enabled, step_delay, is_on>>

\* StepperMotor.move_to_position
MoveToPosition(a, target_position) ==
    /\ Begin("move_to_position")
    /\ loc' = [NoLocals EXCEPT !.op = "move_to_position", !.axis = a]
    /\ IF target_position < 0 \/ target_position > max_position[a]
       THEN /\ End("OutOfBounds")
            /\ UNCHANGED <<current_position, ghostVars>>
       ELSE IF target_position > current_position[a]
       THEN MoveBody(a, target_position - current_position[a], 1)
       ELSE IF target_position < current_position[a]
       THEN MoveBody(a, current_position[a] - target_position, 0)
       ELSE /\ End("ok")
            /\ UNCHANGED <<current_position, ghostVars>>
    /\ UNCHANGED <<is_homed, is_enabled, step_delay, is_on>>

(***************************************************************************)
(* StepperMotor.home on axis a.  mock is what _is_mock_gpio() answers at   *)
(* this call; after is where the caller continues when homing succeeds.    *)
(***************************************************************************)
HomeCall(a, op, mock, endstop, home_direction, after) ==
    IF mock
    THEN \* _simulate_homing
         /\ current_position' = [current_position EXCEPT ![a] = 0]
         /\ is_homed' = [is_homed EXCEPT ![a] = TRUE]
         /\ loc' = [NoLocals EXCEPT !.op = op, !.axis = a]
         /\ pc' = after
         /\ result' = IF after = "done" THEN "ok" ELSE result
         /\ UNCHANGED <<step_delay, ghostVars>>
    ELSE \* _execute_homing, up to its loop
         /\ loc' = [NoLocals EXCEPT !.op = op, !.axis = a,
                                    !.home_all = (after # "done"),
                                    !.endstop = endstop,
                                    !.original_step_delay = step_delay[a]]
         /\ step_delay' = [step_delay EXCEPT ![a] = home_step_delay]
         /\ dir_writes' = [dir_writes EXCEPT
                             ![a] = Append(@, SetDirectionLevel(a, home_direction))]
         /\ pc' = "homing"
         /\ UNCHANGED <<current_position, is_homed, result, pulses>>

\* StepperMotor.home
Home(a, mock, endstop, home_direction) ==
    /\ Begin("home")
    /\ HomeCall(a, "home", mock, endstop, home_direction, "done")
    /\ UNCHANGED <<is_enabled, is_on>>

\* MotorController.home_all: motor_x.home(...)
HomeAll(mock, endstop, home_direction) ==
    /\ Begin("home_all")
    /\ HomeCall("X", "home_all", mock, endstop, home_direction, "home_all_y")
    /\ UNCHANGED <<is_enabled, is_on>>

\* A home_all that starts on Y while the X homing loop is still running.
YHomingStartsEarly ==
    /\ pc \in {"homing", "home_all_y"}
    /\ loc.op = "home_all"
    /\ loc.axis = "X"

\* home_all: motor_x.home(...) has returned normally.
YHomingStarts == pc = "home_all_y"

\* MotorController.home_all: motor_y.home(...), once X homing has returned
HomeAllY(mock, endstop, home_direction) ==
    /\ YHomingStarts
    /\ HomeCall("Y", "home_all", mock, endstop, home_direction, "done")
    /\ UNCHANGED <<is_enabled, is_on, config, pre, stopped>>

\* _execute_homing: "while steps_taken < max_steps", and the loop that
\* runs one pass too many.
HomingContinuesInclusive(steps_taken, max_steps) == steps_taken <= max_steps

HomingContinues(steps_taken, max_steps) == steps_taken < max_steps

\* _execute_homing: the position recorded when the switch reads pressed, and
\* the variant that keeps the old one.
HomedPositionKept(a) == current_position[a]

HomedPosition(a) == 0

RECURSIVE HomingOutcome(_, _, _)
\* _execute_homing's loop from steps_taken on, for an axis of max_steps
\* steps whose switch reads pressed once k pulses have been issued.
HomingOutcome(max_steps, k, steps_taken) ==
    IF HomingContinues(steps_taken, max_steps)
    THEN IF steps_taken >= k THEN "ok"
         ELSE HomingOutcome(max_steps, k, steps_taken + 1)
    ELSE "HomingTimeout"

\* StepperMotor._execute_homing: one pass of the while loop, or its exit.
ExecuteHoming ==
    /\ pc = "homing"
    /\ LET a == loc.axis
           max_steps == max_position[a]
       IN  IF HomingContinues(loc.steps_taken, max_steps)
           THEN \E is_pressed \in IsPressedReadings(loc.endstop, pulses[a]) :
                  IF ~is_pressed
                  THEN \* _pulse_step
                       /\ pulses' = [pulses EXCEPT ![a] = @ + 1]
                       /\ loc' = [loc EXCEPT !.steps_taken = @ + 1]
                       /\ UNCHANGED <<current_position, is_homed, step_delay,
                                      pc, result>>
                  ELSE /\ current_position' = [current_position EXCEPT
                                                 ![a] = HomedPosition(a)]
                       /\ is_homed' = [is_homed EXCEPT ![a] = TRUE]
                       /\ step_delay' = [step_delay EXCEPT
                                           ![a] = loc.original_step_delay]
                       /\ pc' = IF loc.home_all THEN "home_all_y" ELSE "done"
                       /\ result' = IF loc.home_all THEN result ELSE "ok"
                       /\ UNCHANGED <<pulses, loc>>
           ELSE /\ step_delay' = [step_delay EXCEPT
                                    ![a] = loc.original_step_delay]
                /\ End("HomingTimeout")
                /\ UNCHANGED <<current_position, is_homed, pulses, loc>>
    /\ UNCHANGED <<is_enabled, is_on, config, dir_writes, pre, stopped>>


\* The diagonal factor 0.7, in tenths: abs_dx > 0 and abs_dy > 0.
DiagonalBoost(abs_dx, abs_dy) ==
    IF abs_dx > 0 /\ abs_dy > 0 THEN 7 ELSE 10

Boosted(delay, boost) == (delay * boost) \div 10

\* _prepare_coordinated_move: the target's bounds check on axis a, the
\* variant that forgets the far end of the travel, and the check as the
\* code makes it.
TargetInBoundsNoUpper(a, target) == ~(target < 0)

TargetInBounds(a, target) == ~(target < 0 \/ target > max_position[a])

\* An error term that starts at 0.
InitialErrorZero(abs_dx, abs_dy) == 0

\* "error = abs_dx / 2" of the X-dominant loop, "error = abs_dy / 2" of the
\* Y-dominant one, in half steps.
InitialError(abs_dx, abs_dy) == IF abs_dx > abs_dy THEN abs_dx ELSE abs_dy

(***************************************************************************)
(* MotorController._move_coordinated(dx, dy), up to the choice of the      *)
(* execution path: the no-op return, _prepare_coordinated_move (bounds on  *)
(* both axes, then both directions), and the locals of the path taken.     *)
(* error is kept in half steps (abs_dx / 2 is abs_dx half steps).          *)
(***************************************************************************)
MoveCoordinated(op, dx, dy) ==
    LET x_dir == IF dx > 0 THEN 1 ELSE 0
        y_dir == IF dy > 0 THEN 1 ELSE 0
        abs_dx == Abs(dx)
        abs_dy == Abs(dy)
        target_x == current_position["X"] + dx
        target_y == current_position["Y"] + dy
    IN  IF dx = 0 /\ dy = 0
        THEN /\ End("ok")
             /\ loc' = [NoLocals EXCEPT !.op = op, !.dx = dx, !.dy = dy]
             /\ UNCHANGED dir_writes
        ELSE IF ~TargetInBounds("X", target_x)
        THEN /\ End("OutOfBounds")
             /\ loc' = [NoLocals EXCEPT !.op = op, !.dx = dx, !.dy = dy]
             /\ UNCHANGED dir_writes
        ELSE IF ~TargetInBounds("Y", target_y)
        THEN /\ End("OutOfBounds")
             /\ loc' = [NoLocals EXCEPT !.op = op, !.dx = dx, !.dy = dy]
             /\ UNCHANGED dir_writes
        ELSE /\ dir_writes' =
                  [a \in Axes |->
                     Append(dir_writes[a],
                            SetDirectionLevel(a, IF a = "X" THEN x_dir ELSE y_dir))]
             /\ loc' = [NoLocals EXCEPT
                          !.op = op, !.dx = dx, !.dy = dy,
                          !.abs_dx = abs_dx, !.abs_dy = abs_dy,
                          !.x_dir = x_dir, !.y_dir = y_dir,
                          !.target_x = target_x, !.target_y = target_y,
                          !.original_x_delay = step_delay["X"],
                          !.original_y_delay = step_delay["Y"],
                          !.error = InitialError(abs_dx, abs_dy)]
             /\ pc' = IF wave_generator THEN "pigpio"
                      ELSE IF abs_dx > abs_dy THEN "x_dominant"
                      ELSE "y_dominant"
             /\ UNCHANGED result

\* MotorController.move_relative
MoveRelative(dx, dy) ==
    /\ Begin("move_relative")
    /\ MoveCoordinated("move_relative", dx, dy)
    /\ UNCHANGED <<axisVars, is_on, pulses>>

\* A homing requirement that looks at the X axis only.
NotHomedXOnly == ~is_homed["X"]

\* move_to: "if not self.motor_x.is_homed or not self.motor_y.is_homed"
NotHomed == ~is_homed["X"] \/ ~is_homed["Y"]

\* MotorController.move_to
MoveTo(x, y) ==
    /\ Begin("move_to")
    /\ IF NotHomed
       THEN /\ End("NotHomed")
            /\ loc' = [NoLocals EXCEPT !.op = "move_to", !.target_x = x,
                                        !.target_y = y]
            /\ UNCHANGED dir_writes
       ELSE MoveCoordinated("move_to", x - current_position["X"],
                            y - current_position["Y"])
    /\ UNCHANGED <<axisVars, is_on, pulses>>

XDelay(step_count, total) ==
    calculate_step_delay(step_count, total, min_step_delay, max_step_delay,
                         accel_steps)

\* A step that counts forward whatever the direction.
TowardForward(dir) == 1

\* One unit of travel in direction dir.
Toward(dir) == IF dir = 1 THEN 1 ELSE -1

\* A restore that forgets the Y axis.
RestoredStepDelayXOnly ==
    [step_delay EXCEPT !["X"] = loc.original_x_delay]

\* _move_coordinated_with_sleep: "Restore original step delays"
RestoredStepDelay ==
    [step_delay EXCEPT !["X"] = loc.original_x_delay,
                       !["Y"] = loc.original_y_delay]

(***************************************************************************)
(* MotorController._execute_x_dominant_move: one pass of its loop up to    *)
(* and including the X pulse and "error -= abs_dy"; when the loop has run  *)
(* abs_dx times, the tail of _move_coordinated_with_sleep (delays          *)
(* restored) and of _move_coordinated (positions set to the target).       *)
(***************************************************************************)
ExecuteXDominantMove ==
    /\ pc = "x_dominant"
    /\ IF loc.i < loc.abs_dx
       THEN LET boost == DiagonalBoost(loc.abs_dx, loc.abs_dy)
                error == loc.error - 2 * loc.abs_dy
            IN  /\ step_delay' =
                     IF enable_acceleration
                     THEN [step_delay EXCEPT
                             !["X"] = Boosted(XDelay(loc.x_step_count, loc.abs_dx),
                                              boost)]
                     ELSE step_delay
                /\ pulses' = [pulses EXCEPT !["X"] = @ + 1]
                /\ current_position' = [current_position EXCEPT
                                          !["X"] = @ + Toward(loc.x_dir)]
                /\ IF error < 0
                   THEN /\ loc' = [loc EXCEPT !.x_step_count = @ + 1,
                                              !.error = error]
                        /\ pc' = "x_dominant_minor"
                   ELSE /\ loc' = [loc EXCEPT !.x_step_count = @ + 1,
                                              !.error = error, !.i = @ + 1]
                        /\ pc' = "x_dominant"
                /\ UNCHANGED result
       ELSE /\ step_delay' = RestoredStepDelay
            /\ current_position' = [current_position EXCEPT
                                      !["X"] = loc.target_x,
                                      !["Y"] = loc.target_y]
            /\ End("ok")
            /\ UNCHANGED <<pulses, loc>>
    /\ UNCHANGED <<is_homed, is_enabled, is_on, config, dir_writes, pre, stopped>>

\* _execute_x_dominant_move: the Y pulse taken when error < 0.
ExecuteXDominantMinor ==
    /\ pc = "x_dominant_minor"
    /\ LET boost == DiagonalBoost(loc.abs_dx, loc.abs_dy)
       IN  /\ step_delay' =
                IF enable_acceleration
                THEN [step_delay EXCEPT
                        !["Y"] = Boosted(XDelay(loc.y_step_count, loc.abs_dy),
                                         boost)]
                ELSE step_delay
           /\ pulses' = [pulses EXCEPT !["Y"] = @ + 1]
           /\ current_position' = [current_position EXCEPT
                                     !["Y"] = @ + Toward(loc.y_dir)]
           /\ loc' = [loc EXCEPT !.y_step_count = @ + 1,
                                 !.error = @ + 2 * loc.abs_dx, !.i = @ + 1]
           /\ pc' = "x_dominant"
    /\ UNCHANGED <<is_homed, is_enabled, is_on, config, result, dir_writes,
                   pre, stopped>>

\* MotorController._execute_y_dominant_move, likewise with the axes swapped.
ExecuteYDominantMove ==
    /\ pc = "y_dominant"
    /\ IF loc.i < loc.abs_dy
       THEN LET boost == DiagonalBoost(loc.abs_dx, loc.abs_dy)
                error == loc.error - 2 * loc.abs_dx
            IN  /\ step_delay' =
                     IF enable_acceleration
                     THEN [step_delay EXCEPT
                             !["Y"] = Boosted(XDelay(loc.y_step_count, loc.abs_dy),
                                              boost)]
                     ELSE step_delay
                /\ pulses' = [pulses EXCEPT !["Y"] = @ + 1]
                /\ current_position' = [current_position EXCEPT
                                          !["Y"] = @ + Toward(loc.y_dir)]
                /\ IF error < 0
                   THEN /\ loc' = [loc EXCEPT !.y_step_count = @ + 1,
                                              !.error = error]
                        /\ pc' = "y_dominant_minor"
                   ELSE /\ loc' = [loc EXCEPT !.y_step_count = @ + 1,
                                              !.error = error, !.i = @ + 1]
                        /\ pc' = "y_dominant"
                /\ UNCHANGED result
       ELSE /\ step_delay' = RestoredStepDelay
            /\ current_position' = [current_position EXCEPT
                                      !["X"] = loc.target_x,
                                      !["Y"] = loc.target_y]
            /\ End("ok")
            /\ UNCHANGED <<pulses, loc>>
    /\ UNCHANGED <<is_homed, is_enabled, is_on, config, dir_writes, pre, stopped>>

\* _execute_y_dominant_move: the X pulse taken when error < 0.
ExecuteYDominantMinor ==
    /\ pc = "y_dominant_minor"
    /\ LET boost == DiagonalBoost(loc.abs_dx, loc.abs_dy)
       IN  /\ step_delay' =
                IF enable_acceleration
                THEN [step_delay EXCEPT
                        !["X"] = Boosted(XDelay(loc.x_step_count, loc.abs_dx),
                                         boost)]
                ELSE step_delay
           /\ pulses' = [pulses EXCEPT !["X"] = @ + 1]
           /\ current_position' = [current_position EXCEPT
                                     !["X"] = @ + Toward(loc.x_dir)]
           /\ loc' = [loc EXCEPT !.x_step_count = @ + 1,
                                 !.error = @ + 2 * loc.abs_dy, !.i = @ + 1]
           /\ pc' = "y_dominant"
    /\ UNCHANGED <<is_homed, is_enabled, is_on, config, result, dir_writes,
                   pre, stopped>>

\* An emergency stop that also drops the homed state of both axes.
EmergencyStopUnhomes ==
    /\ is_on' = FALSE
    /\ is_homed' = [a \in Axes |-> FALSE]
    /\ stopped' = (stopped \/ pc \notin {"idle", "done"})
    /\ UNCHANGED <<current_position, is_enabled, step_delay, config, pc, loc,
                   result, ghostVars, pre>>

(***************************************************************************)
(* MotorController.emergency_stop, run by another execution context at any *)
(* moment: StepperMotor.emergency_stop on both axes (step output low) and  *)
(* Electromagnet.off.  It touches nothing the caller thread reads.         *)
(***************************************************************************)
EmergencyStop ==
    /\ is_on' = FALSE
    /\ stopped' = (stopped \/ pc \notin {"idle", "done"})
    /\ UNCHANGED <<axisVars, config, pc, loc, result, ghostVars, pre>>

\* The operation has returned to its caller; the next one may begin.
Return ==
    /\ pc = "done"
    /\ pc' = "idle"
    /\ loc' = NoLocals
    /\ result' = "none"
    /\ pulses' = NoPulses
    /\ dir_writes' = NoWrites
    /\ pre' = NoPre
    /\ stopped' = FALSE
    /\ events' = <<>>
    /\ wv' = NoWave
    /\ attempts' = 0
    /\ connects' = 0
    /\ sent' = <<>>
    /\ live_waves' = 0
    /\ UNCHANGED <<axisVars, is_on, wave_generator, enable_acceleration, profile>>


\* _send_wave_in_chunks: max_pulses_per_wave, scaled down (3000 in the
\* source) so that a move of a few steps spans several waves.
max_pulses_per_wave == 7

\* The step pin of an axis stands for its GPIO number.
StepPin(a) == a

\* A timeline whose every step takes the profile of the move's longer axis.
BuildStepTimelineDominantTotal(total_steps) ==
    [n \in 1 .. total_steps |->
       <<n - 1,
         calculate_step_delay(n - 1, Max(loc.abs_dx, loc.abs_dy),
                              min_step_delay, max_step_delay, accel_steps)
           + step_pulse_duration>>]

\* MotorController._build_step_timeline: (step_num, delay + pulse duration)
BuildStepTimeline(total_steps) ==
    [n \in 1 .. total_steps |->
       <<n - 1,
         (IF enable_acceleration
          THEN calculate_step_delay(n - 1, total_steps, min_step_delay,
                                    max_step_delay, accel_steps)
          ELSE min_step_delay) + step_pulse_duration>>]

\* _move_coordinated_with_pigpio: the diagonal boost applied to a timeline
BoostTimeline(steps, boost) ==
    [n \in 1 .. Len(steps) |-> <<steps[n][1], Boosted(steps[n][2], boost)>>]

RECURSIVE TimeAfter(_, _)
\* The running sum of the first n delays of a timeline.
TimeAfter(steps, n) ==
    IF n = 0 THEN 0 ELSE TimeAfter(steps, n - 1) + steps[n][2]

\* list.sort(key = time): stable, so an event keeps its place among the
\* events of equal time.
SortByTime(s) ==
    LET rank(i) == Cardinality({j \in 1 .. Len(s) : s[j][1] < s[i][1]})
                     + Cardinality({j \in 1 .. i : s[j][1] = s[i][1]})
    IN  [r \in 1 .. Len(s) |-> s[CHOOSE i \in 1 .. Len(s) : rank(i) = r]]

\* PigpioWaveGenerator._merge_step_timelines: (time, pin) events by time
MergeStepTimelines(x_steps, y_steps) ==
    SortByTime([n \in 1 .. Len(x_steps) |-> <<TimeAfter(x_steps, n), StepPin("X")>>]
               \o [n \in 1 .. Len(y_steps) |-> <<TimeAfter(y_steps, n), StepPin("Y")>>])

\* pigpio.pulse(gpio_on, gpio_off, delay)
Pulse(gpio_on, gpio_off, delay) ==
    [gpio_on |-> gpio_on, gpio_off |-> gpio_off, delay |-> delay]

\* The descriptors one loop pass appends for event (event_time, pin).
EventPulses(event_time, pin, last_time, pulse_width_us) ==
    LET delay_us == event_time - last_time
    IN  (IF delay_us > 0 THEN <<Pulse({}, {}, delay_us)>> ELSE <<>>)
          \o <<Pulse({pin}, {}, pulse_width_us), Pulse({}, {pin}, 1)>>

\* int(step_pulse_duration * 1_000_000)
PulseWidthUs == step_pulse_duration

\* Step pulses a wave puts on the pin of axis a.
StepsIn(wave, a) ==
    Cardinality({n \in 1 .. Len(wave) : wave[n].gpio_on = {StepPin(a)}})

\* What a call into the pigpio daemon can do: succeed, raise OSError with
\* ECONNRESET, raise another OSError.
Faults == {"ok", "reset", "oserror"}

\* A handler that reconnects on a connection reset whatever the attempt.
RaiseRetryAlways(fault) ==
    IF fault = "reset"
    THEN /\ pc' = "reconnect"
         /\ UNCHANGED result
    ELSE End(CASE fault = "create_failed" -> "WaveCreateFailed"
               [] OTHER -> "OSError")

\* An exception leaves _send_wave_in_chunks.  The first call's connection
\* reset reaches the except clause of generate_coordinated_wave; everything
\* else propagates to the caller of the move, which records no position.
Raise(fault) ==
    IF fault = "reset" /\ attempts = 1
    THEN /\ pc' = "reconnect"
         /\ UNCHANGED result
    ELSE End(CASE fault = "create_failed" -> "WaveCreateFailed"
               [] fault = "reset" -> "ConnectionReset"
               [] OTHER -> "OSError")

(***************************************************************************)
(* MotorController._move_coordinated_with_pigpio and the head of           *)
(* PigpioWaveGenerator.generate_coordinated_wave: the timelines, the pin   *)
(* modes and levels (outside the try), the merged events.                  *)
(***************************************************************************)
GenerateCoordinatedWave(fault) ==
    /\ pc = "pigpio"
    /\ LET boost == DiagonalBoost(loc.abs_dx, loc.abs_dy)
           x_steps == BoostTimeline(BuildStepTimeline(loc.abs_dx), boost)
           y_steps == BoostTimeline(BuildStepTimeline(loc.abs_dy), boost)
       IN  IF fault = "ok"
           THEN /\ dir_writes' =
                     [a \in Axes |->
                        Append(dir_writes[a],
                               SetDirectionLevel(a, IF a = "X" THEN loc.x_dir
                                                    ELSE loc.y_dir))]
                /\ events' = MergeStepTimelines(x_steps, y_steps)
                /\ wv' = NoWave
                /\ attempts' = 1
                /\ sent' = <<>>
                /\ pc' = "send_loop"
                /\ UNCHANGED result
           ELSE /\ End(IF fault = "reset" THEN "ConnectionReset" ELSE "OSError")
                /\ UNCHANGED <<dir_writes, events, wv, attempts, sent>>
    /\ UNCHANGED <<axisVars, is_on, wave_generator, enable_acceleration, profile, loc,
                   connects, live_waves, pulses, pre, stopped>>

(***************************************************************************)
(* _send_wave_in_chunks: one pass of "for event_time, pin in events", or,  *)
(* after the last pass, the entry of the closing _flush_pulses().          *)
(***************************************************************************)
SendWaveEvent ==
    /\ pc = "send_loop"
    /\ IF wv.idx <= Len(events)
       THEN LET event_time == events[wv.idx][1]
                pin == events[wv.idx][2]
                new == EventPulses(event_time, pin, wv.last_time, PulseWidthUs)
            IN  /\ wv' = [wv EXCEPT !.idx = @ + 1,
                                    !.last_time = event_time,
                                    !.pulses = @ \o new,
                                    !.all_pins = @ \cup {pin}]
                /\ pc' = IF Len(wv.pulses) + Len(new) >= max_pulses_per_wave
                         THEN "flush" ELSE "send_loop"
       ELSE /\ wv' = [wv EXCEPT !.final = TRUE]
            /\ pc' = IF wv.pulses = <<>> THEN "final_low" ELSE "flush"
    /\ UNCHANGED <<axisVars, is_on, wave_generator, enable_acceleration, profile, loc,
                   result, events, attempts, connects, sent, live_waves,
                   pulses, dir_writes, pre, stopped>>

(***************************************************************************)
(* _flush_pulses: wave_clear, wave_add_generic, wave_create and            *)
(* wave_send_once.  A wave handed to the daemon is transmitted by the      *)
(* hardware whatever happens to the connection afterwards.                 *)
(***************************************************************************)
FlushSend(fault) ==
    /\ pc = "flush"
    /\ IF fault = "ok"
       THEN /\ sent' = Append(sent, wv.pulses)
            /\ pulses' = [a \in Axes |-> pulses[a] + StepsIn(wv.pulses, a)]
            /\ live_waves' = live_waves + 1
            /\ wv' = [wv EXCEPT !.created = @ + 1]
            /\ pc' = "flush_wait"
            /\ UNCHANGED result
       ELSE /\ Raise(fault)
            /\ UNCHANGED <<sent, pulses, live_waves, wv>>
    /\ UNCHANGED <<axisVars, is_on, wave_generator, enable_acceleration, profile, loc,
                   events, attempts, connects, dir_writes, pre, stopped>>

\* The loop after "_flush_pulses()": "pulses = []"; last_time runs on.  The
\* variant starts the next wave's clock afresh.
AfterFlushClockReset(w) == [w EXCEPT !.pulses = <<>>, !.last_time = 0]

\* The variant that starts the next wave's set of pins afresh.
AfterFlushForgetsPins(w) == [w EXCEPT !.pulses = <<>>, !.all_pins = {}]

AfterFlush(w) == [w EXCEPT !.pulses = <<>>]

\* A flush that leaves its wave in the daemon.
WaveDeleteSkipped(w) == w

\* _flush_pulses: "pi.wave_delete(wave_id)"
WaveDeleted(w) == [w EXCEPT !.deleted = @ + 1]

\* _flush_pulses: the wave_tx_busy poll, wave_delete, wave_clear; then
\* "pulses = []" of the loop, or the end of the closing flush.
FlushWait(fault) ==
    /\ pc = "flush_wait"
    /\ IF fault = "ok"
       THEN /\ live_waves' = live_waves - 1
            /\ wv' = IF wv.final THEN WaveDeleted(wv)
                      ELSE AfterFlush(WaveDeleted(wv))
            /\ pc' = IF wv.final THEN "final_low" ELSE "send_loop"
            /\ UNCHANGED result
       ELSE /\ Raise(fault)
            /\ UNCHANGED <<live_waves, wv>>
    /\ UNCHANGED <<axisVars, is_on, wave_generator, enable_acceleration, profile, loc,
                   events, attempts, connects, sent, pulses, dir_writes, pre,
                   stopped>>

\* A coordinator that records the target whether or not the wave
\* generator returned normally.
PositionsAfterAlwaysTarget(fault) ==
    [current_position EXCEPT !["X"] = loc.target_x, !["Y"] = loc.target_y]

\* _move_coordinated: "Ensure positions are correct", reached only when
\* generate_coordinated_wave returned without raising.
PositionsAfter(fault) ==
    IF fault = "ok"
    THEN [current_position EXCEPT !["X"] = loc.target_x,
                                  !["Y"] = loc.target_y]
    ELSE current_position

(***************************************************************************)
(* _send_wave_in_chunks: "for p in all_pins: pi.write(p, 0)", and on       *)
(* success the return through generate_coordinated_wave to                 *)
(* _move_coordinated, which sets both positions to the target.             *)
(***************************************************************************)
FinalLow(fault) ==
    /\ pc = "final_low"
    /\ current_position' = PositionsAfter(fault)
    /\ IF fault = "ok"
       THEN /\ wv' = [wv EXCEPT !.lowered = wv.all_pins]
            /\ End("ok")
       ELSE /\ Raise(fault)
            /\ UNCHANGED wv
    /\ UNCHANGED <<is_homed, is_enabled, step_delay, is_on, wave_generator,
                   enable_acceleration, profile, loc, events, attempts,
                   connects, sent, live_waves, pulses, dir_writes, pre,
                   stopped>>

(***************************************************************************)
(* generate_coordinated_wave, the except clause for a connection reset:    *)
(* _connect(), the pin modes and direction levels again, then              *)
(* _send_wave_in_chunks(events, pulse_width_us) once more.                 *)
(***************************************************************************)
Reconnect(outcome) ==
    /\ pc = "reconnect"
    /\ connects' = connects + 1
    /\ IF outcome = "ok"
       THEN /\ dir_writes' =
                 [a \in Axes |->
                    Append(dir_writes[a],
                           SetDirectionLevel(a, IF a = "X" THEN loc.x_dir
                                                ELSE loc.y_dir))]
            /\ wv' = NoWave
            /\ attempts' = attempts + 1
            /\ sent' = <<>>
            /\ pc' = "send_loop"
            /\ UNCHANGED result
       ELSE /\ End(CASE outcome = "connect_failed" -> "ConnectFailed"
                     [] outcome = "reset" -> "ConnectionReset"
                     [] OTHER -> "OSError")
            /\ UNCHANGED <<dir_writes, wv, attempts, sent>>
    /\ UNCHANGED <<axisVars, is_on, wave_generator, enable_acceleration, profile, loc,
                   events, live_waves, pulses, pre, stopped>>

\* The operations that never enter the wave generator.
AxisOperation ==
    \/ \E a \in Axes : Enable(a)
    \/ \E a \in Axes : Disable(a)
    \/ MagnetOn
    \/ MagnetOff
    \/ MagnetToggle
    \/ \E a \in Axes, direction \in {0, 1} :
         \E steps \in StepCounts(a) : Move(a, steps, direction)
    \/ \E a \in Axes : \E target \in Targets(a) : MoveToPosition(a, target)
    \/ \E a \in Axes, input \in StatusInputs : GetStatus(a, input[1], input[2])

Homing ==
    \/ \E a \in Axes, mock \in BOOLEAN :
         \E endstop \in Endstops(a) : Home(a, mock, endstop, 0)
    \/ \E mock \in BOOLEAN, endstop \in Endstops("X") : HomeAll(mock, endstop, 0)
    \/ \E mock \in BOOLEAN, endstop \in Endstops("Y") : HomeAllY(mock, endstop, 0)
    \/ ExecuteHoming

CoordinatedMove ==
    \/ \E dx \in Deltas("X"), dy \in Deltas("Y") : MoveRelative(dx, dy)
    \/ \E x \in Targets("X"), y \in Targets("Y") : MoveTo(x, y)

SleepPath ==
    \/ ExecuteXDominantMove
    \/ ExecuteXDominantMinor
    \/ ExecuteYDominantMove
    \/ ExecuteYDominantMinor

SendWaveInChunks ==
    \/ SendWaveEvent
    \/ \E fault \in Faults \cup {"create_failed"} : FlushSend(fault)
    \/ \E fault \in Faults : FlushWait(fault)
    \/ \E fault \in Faults : FinalLow(fault)
    \/ \E outcome \in Faults \cup {"connect_failed"} : Reconnect(outcome)

(***************************************************************************)
(* Spec: the controller without a wave generator (create_wave_generator    *)
(* returned None), every operation, steps timed with time.sleep.           *)
(***************************************************************************)
Init == Constructed /\ wave_generator = FALSE /\ enable_acceleration = TRUE

Next ==
    \/ AxisOperation
    \/ Homing
    \/ CoordinatedMove
    \/ SleepPath
    \/ EmergencyStop
    \/ Return

Spec == Init /\ [][Next]_vars

(***************************************************************************)
(* SpecPigpio: the controller with a wave generator; homing, coordinated   *)
(* moves through pigpio waves, emergency stop.  The operations left out    *)
(* (enable, disable, the magnet, single-axis moves) neither read nor write *)
(* anything the wave generator uses.                                       *)
(***************************************************************************)
InitPigpio ==
    Constructed /\ wave_generator = TRUE /\ enable_acceleration = TRUE

NextPigpio ==
    \/ Homing
    \/ CoordinatedMove
    \/ \E fault \in Faults : GenerateCoordinatedWave(fault)
    \/ SendWaveInChunks
    \/ EmergencyStop
    \/ Return

SpecPigpio == InitPigpio /\ [][NextPigpio]_vars

(***************************************************************************)
(* SpecAnySteps: one axis at a time through StepperMotor.move with any     *)
(* integer step count, negative ones included, with enable and disable.    *)
(* A position that has left the travel by more than max_position + 1       *)
(* takes no further move.                                                  *)
(***************************************************************************)
AnySteps(a) == (0 - (max_position[a] + 1)) .. (max_position[a] + 1)

NextAnySteps ==
    \/ \E a \in Axes : Enable(a)
    \/ \E a \in Axes : Disable(a)
    \/ \E a \in Axes, direction \in {0, 1} :
         \E steps \in AnySteps(a) :
           /\ current_position[a] \in (0 - (max_position[a] + 1))
                                        .. (2 * max_position[a] + 1)
           /\ Move(a, steps, direction)
    \/ Return

SpecAnySteps == Init /\ [][NextAnySteps]_vars

(***************************************************************************)
(* SpecNoAccel: the controller constructed with enable_acceleration=False  *)
(* and without a wave generator; coordinated moves on the time.sleep path. *)
(***************************************************************************)
InitNoAccel ==
    Constructed /\ wave_generator = FALSE /\ enable_acceleration = FALSE

NextNoAccel ==
    \/ CoordinatedMove
    \/ SleepPath
    \/ Return

SpecNoAccel == InitNoAccel /\ [][NextNoAccel]_vars

(***************************************************************************)
(* SpecBothPaths: homing and coordinated moves with acceleration, on a     *)
(* controller whose create_wave_generator() either returned a generator or *)
(* None: both execution paths of _move_coordinated.                        *)
(***************************************************************************)
InitBothPaths ==
    Constructed /\ wave_generator \in BOOLEAN /\ enable_acceleration = TRUE

NextBothPaths ==
    \/ Homing
    \/ CoordinatedMove
    \/ SleepPath
    \/ \E fault \in Faults : GenerateCoordinatedWave(fault)
    \/ SendWaveInChunks
    \/ Return

SpecBothPaths == InitBothPaths /\ [][NextBothPaths]_vars

(***************************************************************************)
(* SpecProfile: StepperMotor.calculate_step_delay on its own, called with  *)
(* moves of up to MaxProfileSteps steps (and the index one past the last   *)
(* step), ramps of up to MaxProfileAccel steps and a few delay pairs.      *)
(***************************************************************************)
MaxProfileSteps == 8
MaxProfileAccel == 3

\* (min_delay, max_delay) in microseconds.
ProfileDelays == {<<1, 1>>, <<1, 3>>, <<2, 5>>, <<min_step_delay, max_step_delay>>}

CalculateStepDelay(step_number, total_steps, min_delay, max_delay, accel) ==
    /\ pc = "idle"
    /\ LET r == StepDelayRatio(step_number, total_steps, min_delay, max_delay,
                               accel)
       IN  profile' = [step_number |-> step_number,
                       total_steps |-> total_steps,
                       min_delay |-> min_delay,
                       max_delay |-> max_delay,
                       accel_steps |-> accel,
                       effective_accel_steps |->
                           EffectiveAccelSteps(accel, total_steps),
                       outcome |-> r.outcome,
                       num |-> r.num,
                       den |-> r.den]
    /\ UNCHANGED <<axisVars, is_on, wave_generator, enable_acceleration, pc,
                   loc, result, waveVars, ghostVars, pre, stopped>>

InitProfile ==
    Constructed /\ wave_generator = FALSE /\ enable_acceleration = TRUE

NextProfile ==
    \E total_steps \in 1 .. MaxProfileSteps, accel \in 0 .. MaxProfileAccel,
       d \in ProfileDelays :
      \E step_number \in 0 .. total_steps :
        CalculateStepDelay(step_number, total_steps, d[1], d[2], accel)

SpecProfile == InitProfile /\ [][NextProfile]_vars

(***************************************************************************)
(* Properties.  pre is the state at the call in progress, pulses and       *)
(* dir_writes what the call has put on the step and direction pins.        *)
(***************************************************************************)

\* The target of the coordinated move in progress, from the position at the
\* call and the requested displacement.
RequestedTarget(a) == pre.pos[a] + (IF a = "X" THEN loc.dx ELSE loc.dy)

\* Step events the merged timeline holds for axis a.
EventsOn(a) ==
    Cardinality({n \in 1 .. Len(events) : events[n][2] = StepPin(a)})

C2_BresenhamExactness ==
    (pc = "done" /\ loc.op \in {"move_relative", "move_to"} /\ result = "ok")
    => /\ pulses["X"] = Abs(loc.dx)
       /\ pulses["Y"] = Abs(loc.dy)
       /\ \A a \in Axes : current_position[a] = RequestedTarget(a)

\* C3 (position invariant): between operations a homed axis has
\* 0 <= current_position <= max_position.
C3_PositionInvariant ==
    pc \in {"idle", "done"}
    => \A a \in Axes :
         is_homed[a] => current_position[a] \in 0 .. max_position[a]

\* A homed axis that a single-axis move has just taken to max_position.
C3_Witness ==
    /\ pc = "done"
    /\ loc.op = "move"
    /\ result = "ok"
    /\ is_homed[loc.axis]
    /\ pre.pos[loc.axis] < max_position[loc.axis]
    /\ current_position[loc.axis] = max_position[loc.axis]

\* C4 (homing ceiling): homing never issues more than max_position pulses
\* on an axis, and with an endstop that never reads pressed it issues
\* exactly max_position pulses and then fails with the homing timeout.
C4_HomingCeiling ==
    /\ loc.op \in {"home", "home_all"}
       => \A a \in Axes : pulses[a] <= max_position[a]
    /\ (pc = "done" /\ loc.endstop.kind = "never")
       => /\ result = "HomingTimeout"
          /\ pulses[loc.axis] = max_position[loc.axis]

\* A homing call that ended in the timeout against a never-pressed endstop.
C4_Witness ==
    /\ pc = "done"
    /\ loc.endstop.kind = "never"
    /\ result = "HomingTimeout"
    /\ pulses[loc.axis] = max_position[loc.axis]

\* C5 (timeout un-homes): when homing fails with the timeout, is_homed is
\* false afterwards, also on an axis that was homed before the call.
C5_TimeoutLeavesUnhomed ==
    (pc = "done" /\ result = "HomingTimeout") => ~is_homed[loc.axis]

\* C6 (homing success): with an endstop that first reads pressed after
\* k < max_position pulses, homing issues exactly k pulses, sets the
\* position to 0 and is_homed to true, and returns successfully.
C6_HomingSuccess ==
    (loc.endstop.kind = "after" /\ loc.endstop.k < max_position[loc.axis])
    => /\ pulses[loc.axis] <= loc.endstop.k
       /\ pc \in {"done", "home_all_y"}
          => /\ pulses[loc.axis] = loc.endstop.k
             /\ current_position[loc.axis] = 0
             /\ is_homed[loc.axis]
             /\ pc = "done" => result = "ok"

\* A homing call that started away from 0 and met the endstop after at least
\* one pulse.
C6_Witness ==
    /\ pc = "done"
    /\ loc.op = "home"
    /\ loc.endstop.kind = "after"
    /\ loc.endstop.k \in 1 .. max_position[loc.axis] - 1
    /\ pre.pos[loc.axis] > 0
    /\ result = "ok"
    /\ current_position[loc.axis] = 0

\* C7 (retry after reset): after a connection reset and a successful
\* reconnect only what had not been transmitted is sent again, so every
\* step event of the move is transmitted exactly once and the pulses
\* emitted per axis are |dx| and |dy|.  Stated for resets that leave no
\* wave behind in the daemon: every wave sent before the reset had finished
\* transmitting.
C7_EachEventSentOnce ==
    (pc = "done" /\ result = "ok" /\ connects = 1 /\ live_waves = 0)
    => \A a \in Axes :
         /\ pulses[a] = EventsOn(a)
         /\ pulses[a] = Abs(current_position[a] - pre.pos[a])

\* C8 (one reconnect): one generate_coordinated_wave call reconnects at
\* most once; the reconnect follows a connection reset of the first send
\* and is followed by one re-send; a failure of the re-send, and any other
\* error, propagates without a further reconnect.
C8_OneReconnect ==
    /\ connects \in {0, 1}
    /\ attempts \in 0 .. 2
    /\ attempts = 2 => connects = 1
    /\ pc = "reconnect" => (attempts = 1 /\ connects = 0)
    /\ pc \in {"send_loop", "flush", "flush_wait", "final_low"}
       => attempts = connects + 1

\* The re-send met a second connection reset, which went to the caller.
C8_Witness ==
    /\ pc = "done"
    /\ attempts = 2
    /\ connects = 1
    /\ result = "ConnectionReset"

\* The descriptors of the first n events, built without any flush.
RECURSIVE UnchunkedPulses(_, _)
UnchunkedPulses(evts, n) ==
    IF n = 0 THEN <<>>
    ELSE UnchunkedPulses(evts, n - 1)
           \o EventPulses(evts[n][1], evts[n][2],
                          IF n = 1 THEN 0 ELSE evts[n - 1][1], PulseWidthUs)

\* The waves' descriptor lists, concatenated in the order sent.
RECURSIVE Concatenated(_)
Concatenated(waves) ==
    IF waves = <<>> THEN <<>>
    ELSE Head(waves) \o Concatenated(Tail(waves))

\* C9 (chunked reassembly): the descriptor lists of the waves, concatenated
\* in the order sent, are the descriptors of the unchunked timeline: the
\* same events at the same times on the same pins, every step event once.
C9_ChunkedReassembly ==
    /\ pc \in {"send_loop", "flush"}
       => Concatenated(sent) \o wv.pulses = UnchunkedPulses(events, wv.idx - 1)
    /\ pc = "final_low"
       => /\ Concatenated(sent) = UnchunkedPulses(events, Len(events))
          /\ \A a \in Axes : StepsIn(Concatenated(sent), a) = EventsOn(a)

\* A timeline that went out in more than one wave, the later wave opening
\* with a gap measured from the last event of the earlier one.
C9_Witness ==
    /\ pc = "final_low"
    /\ Len(sent) >= 2
    /\ sent[2][1].gpio_on = {}
    /\ sent[2][1].gpio_off = {}

\* C10 (emergency stop): once emergency_stop has returned, no further step
\* pulse is issued by the operation it interrupted.
C10_StopHaltsPulses ==
    [][(stopped /\ pc # "done") => pulses' = pulses]_vars

\* C11 (velocity symmetry): for a move long enough for a full ramp
\* (N >= 2A, A >= 1) and a ramp index i < A, the delay of step i equals the
\* delay of step N-1-i.
C11_VelocitySymmetry ==
    (/\ profile.outcome = "value"
     /\ profile.accel_steps >= 1
     /\ profile.total_steps >= 2 * profile.accel_steps
     /\ profile.step_number < profile.accel_steps)
    => LET mirror == StepDelayRatio(profile.total_steps - 1 - profile.step_number,
                                    profile.total_steps, profile.min_delay,
                                    profile.max_delay, profile.accel_steps)
       IN  /\ mirror.outcome = "value"
           /\ profile.num * mirror.den = mirror.num * profile.den

\* C16 (short-move ramp degradation): for 1 <= N < 2A (and for A = 0) and
\* every step index i < N the ramp length used is N div 2 (0 for A = 0), the
\* delay is defined and strictly positive and nothing is divided by zero;
\* a step between the two ramps runs at min_delay.
C16_ShortMoveRamp ==
    (/\ profile.outcome # "none"
     /\ profile.step_number < profile.total_steps
     /\ \/ profile.total_steps < 2 * profile.accel_steps
        \/ profile.accel_steps = 0)
    => /\ profile.effective_accel_steps
            = (IF profile.accel_steps = 0 THEN 0
               ELSE profile.total_steps \div 2)
       /\ profile.outcome = "value"
       /\ profile.num > 0
       /\ profile.den > 0
       /\ (/\ profile.step_number >= profile.total_steps \div 2
           /\ profile.step_number
                < profile.total_steps - profile.total_steps \div 2)
          => profile.num = profile.min_delay * profile.den

\* A short move's step on the shortened ramp-down, slower than min_delay.
C16_Witness ==
    /\ profile.outcome = "value"
    /\ profile.total_steps < 2 * profile.accel_steps
    /\ profile.effective_accel_steps >= 1
    /\ profile.step_number = profile.total_steps - 1
    /\ profile.num > profile.min_delay * profile.den

\* The delay the step just taken on axis a would have in a straight move:
\* the profile's value with acceleration, the axis's own step_delay without.
UnscaledDelay(a) ==
    IF enable_acceleration
    THEN IF a = "X" THEN XDelay(loc.x_step_count - 1, loc.abs_dx)
                    ELSE XDelay(loc.y_step_count - 1, loc.abs_dy)
    ELSE pre.delay[a]

\* C12 (diagonal boost): in a coordinated move the delay of every step is
\* the unscaled delay times 0.7 when both dx and dy are nonzero, and the
\* unscaled delay itself in a move along one axis; stated for the steps of
\* the software-timed path.
C12_DiagonalBoost ==
    pc \in {"x_dominant", "x_dominant_minor", "y_dominant", "y_dominant_minor"}
    => \A a \in Axes :
         (IF a = "X" THEN loc.x_step_count ELSE loc.y_step_count) > 0
         => step_delay[a]
              = (IF loc.dx # 0 /\ loc.dy # 0
                 THEN (UnscaledDelay(a) * 7) \div 10
                 ELSE UnscaledDelay(a))

\* Where the single-axis move in progress was asked to go.
MoveTarget ==
    IF loc.direction = 1 THEN pre.pos[loc.axis] + loc.steps
                         ELSE pre.pos[loc.axis] - loc.steps

\* What a rejected call leaves behind: no pulse, no direction write, the
\* positions of the call.
NothingActuated ==
    /\ pulses = NoPulses
    /\ dir_writes = NoWrites
    /\ current_position = pre.pos

\* C13 (Axis.move bounds check): on an enabled axis, for every integer
\* steps and direction in {0, 1}, move(steps, direction) fails with
\* OutOfBounds, with no pulse, no direction write and the position
\* unchanged, whenever the position it asks for is outside
\* [0, max_position].
C13_MoveBoundsCheck ==
    (/\ pc = "done"
     /\ loc.op = "move"
     /\ pre.enabled[loc.axis]
     /\ MoveTarget \notin 0 .. max_position[loc.axis])
    => (result = "OutOfBounds" /\ NothingActuated)

\* C14 (disabled-motor rejection): while an axis is disabled every
\* move(steps, direction) on it fails with Disabled, with no pulse, no
\* direction write and the position unchanged, whatever steps and
\* direction, out-of-bounds requests included.
C14_DisabledRejection ==
    (pc = "done" /\ loc.op = "move" /\ ~pre.enabled[loc.axis])
    => (result = "Disabled" /\ NothingActuated)

\* A move on a disabled axis that asked for a position past max_position.
C14_Witness ==
    /\ pc = "done"
    /\ loc.op = "move"
    /\ ~is_enabled[loc.axis]
    /\ result = "Disabled"
    /\ loc.steps > 0
    /\ MoveTarget > max_position[loc.axis]

\* C15 (move_to requires homing): move_to fails with NotHomed whenever an
\* axis is not homed (X only, Y only, or both), before bounds validation,
\* direction writes and pulses; position, is_homed and step_delay of both
\* axes stay as they were.
C15_MoveToNotHomed ==
    (loc.op = "move_to" /\ \E a \in Axes : ~pre.homed[a])
    => /\ pc = "done"
       /\ result = "NotHomed"
       /\ NothingActuated
       /\ is_homed = pre.homed
       /\ step_delay = pre.delay

\* A move_to rejected with only Y unhomed, its X target beyond max_position.
C15_Witness ==
    /\ pc = "done"
    /\ loc.op = "move_to"
    /\ result = "NotHomed"
    /\ is_homed["X"]
    /\ ~is_homed["Y"]
    /\ loc.target_x > max_position["X"]

\* C17 (home_all is sequential): while X homing has not returned
\* successfully, Y has not been pulsed, its direction not written, and its
\* position and is_homed are those of the call; Y homing runs only with X
\* homed at 0; a home_all that ends during the X phase ends with the X
\* homing timeout.
C17_HomeAllSequential ==
    loc.op = "home_all"
    => /\ (loc.axis = "X" /\ pc \in {"homing", "done"})
          => /\ pulses["Y"] = 0
             /\ dir_writes["Y"] = <<>>
             /\ current_position["Y"] = pre.pos["Y"]
             /\ is_homed["Y"] = pre.homed["Y"]
       /\ (loc.axis = "X" /\ pc = "done") => result = "HomingTimeout"
       /\ (loc.axis = "Y" \/ pc = "home_all_y")
          => (is_homed["X"] /\ current_position["X"] = 0)

\* home_all ended by the X homing timeout, Y away from 0 and untouched.
C17_Witness ==
    /\ pc = "done"
    /\ loc.op = "home_all"
    /\ loc.axis = "X"
    /\ result = "HomingTimeout"
    /\ pulses["X"] = max_position["X"]
    /\ pulses["Y"] = 0
    /\ current_position["Y"] > 0

\* C18 (emergency stop frame): emergency_stop changes neither
\* current_position, is_homed nor is_enabled of either axis (nor step_delay
\* nor where the caller thread is); afterwards the electromagnet is off
\* whatever it was, and move_to's homing requirement answers as before.
C18_StopChangesNothingElse ==
    [][EmergencyStop
         => /\ current_position' = current_position
            /\ is_homed' = is_homed
            /\ is_enabled' = is_enabled
            /\ step_delay' = step_delay
            /\ pc' = pc
            /\ NotHomed' = NotHomed
            /\ ~is_on']_vars

\* An emergency stop during a coordinated move that began with both axes
\* homed and the magnet on: the magnet is off, the axes are still homed.
C18_Witness ==
    /\ stopped
    /\ pc \in {"x_dominant", "y_dominant", "done"}
    /\ loc.op = "move_to"
    /\ pre.on
    /\ ~is_on
    /\ \A a \in Axes : is_homed[a]
    /\ pulses["X"] > 0

\* C19 (pins end LOW): when _send_wave_in_chunks completes, every step pin
\* that appeared in an event of the move has been written LOW, and the
\* writes came after the last wave finished transmitting: by then every
\* event had gone out in a wave and the call was over.
C19_PinsEndLow ==
    /\ (pc = "done" /\ result = "ok" /\ attempts >= 1)
       => {events[n][2] : n \in 1 .. Len(events)} \subseteq wv.lowered
    /\ wv.lowered # {}
       => /\ pc = "done"
          /\ wv.idx = Len(events) + 1
          /\ Concatenated(sent) = UnchunkedPulses(events, Len(events))

\* A completed move of several waves whose last wave carried no Y step.
C19_Witness ==
    /\ pc = "done"
    /\ result = "ok"
    /\ Len(sent) >= 2
    /\ StepsIn(sent[Len(sent)], "Y") = 0
    /\ EventsOn("Y") > 0
    /\ wv.lowered = {StepPin("X"), StepPin("Y")}

\* Events of the merged timeline on axis a before position p.
EventsBefore(p, a) ==
    Cardinality({n \in 1 .. p - 1 : events[n][2] = StepPin(a)})

\* C20 (hardware path interleaves like Bresenham): in the merged timeline
\* of a move with dominant count D and minor count m the minor steps are
\* spread evenly among the dominant ones: when the dominant axis takes its
\* next step after k steps, the minor axis has taken j steps with
\* |j*D - k*m| <= D/2, the bound the software path's error term keeps.
C20_HardwareInterleaving ==
    events # <<>>
    => LET dominant == IF loc.abs_dx > loc.abs_dy THEN "X" ELSE "Y"
           minor == IF dominant = "X" THEN "Y" ELSE "X"
           D == Max(loc.abs_dx, loc.abs_dy)
           m == Min(loc.abs_dx, loc.abs_dy)
       IN  \A p \in 1 .. Len(events) :
             events[p][2] = StepPin(dominant)
             => 2 * Abs(EventsBefore(p, minor) * D
                          - EventsBefore(p, dominant) * m) <= D

\* C21 (per-wave limit): every wave handed to the daemon holds at most
\* max_pulses_per_wave pulse descriptors, whatever the mix of events with
\* and without a leading gap descriptor.
C21_WaveSizeLimit ==
    \A w \in 1 .. Len(sent) : Len(sent[w]) <= max_pulses_per_wave

\* C22 (coordinated move on a disabled axis): a move_to or move_relative
\* with a nonzero displacement and both targets within the travel, asked
\* for while X or Y is disabled, is rejected with Disabled before any step
\* pulse, and both positions stay as they were.
C22_CoordinatedDisabled ==
    (/\ loc.op \in {"move_to", "move_relative"}
     /\ loc.dx # 0 \/ loc.dy # 0
     /\ \A a \in Axes : RequestedTarget(a) \in 0 .. max_position[a]
     /\ \E a \in Axes : ~pre.enabled[a])
    => /\ pc = "done"
       /\ result = "Disabled"
       /\ pulses = NoPulses
       /\ current_position = pre.pos

\* C23 (even distribution): in a software-timed coordinated move with
\* dominant count D and minor count m, at the end of every iteration k of
\* the dominant loop (1 <= k <= D) the dominant axis has taken k steps,
\* the minor axis s steps with |s*D - k*m| <= D/2, and the error term lies
\* in [0, D).
C23_EvenDistribution ==
    /\ (pc = "x_dominant" /\ loc.i >= 1)
       => /\ loc.x_step_count = loc.i
          /\ 2 * Abs(loc.y_step_count * loc.abs_dx - loc.i * loc.abs_dy)
               <= loc.abs_dx
          /\ loc.error \in 0 .. 2 * loc.abs_dx - 1
    /\ (pc = "y_dominant" /\ loc.i >= 1)
       => /\ loc.y_step_count = loc.i
          /\ 2 * Abs(loc.x_step_count * loc.abs_dy - loc.i * loc.abs_dx)
               <= loc.abs_dy
          /\ loc.error \in 0 .. 2 * loc.abs_dy - 1

\* The X-dominant loop after its second of three iterations, the single Y
\* step of the move taken.
C23_Witness ==
    /\ pc = "x_dominant"
    /\ loc.abs_dx = 3
    /\ loc.abs_dy = 1
    /\ loc.i = 2
    /\ loc.y_step_count = 1

\* Steps of the move in progress on axis a: taken so far, and in all.
StepCount(a) == IF a = "X" THEN loc.x_step_count ELSE loc.y_step_count

TotalSteps(a) == IF a = "X" THEN loc.abs_dx ELSE loc.abs_dy

\* The times of the merged timeline's events on axis a, in order.
AxisTimes(a) ==
    LET on_axis(e) == e[2] = StepPin(a)
        own == SelectSeq(events, on_axis)
    IN  [n \in 1 .. Len(own) |-> own[n][1]]

\* The velocity profile at step j of an axis that takes total steps.
OwnProfile(j, total) ==
    calculate_step_delay(j, total, min_step_delay, max_step_delay, accel_steps)

\* C24 (independent per-axis ramps): with acceleration enabled, the delay
\* of the j-th step of an axis is the velocity profile at (j, that axis's
\* own step count), times the diagonal factor.  On the software path it is
\* the step_delay in force at the axis's latest step; on the hardware path
\* it is the gap between the axis's consecutive events, pulse duration
\* included.  Dominant and minor axis alike.
C24_OwnAxisProfile ==
    LET boost == DiagonalBoost(loc.abs_dx, loc.abs_dy)
    IN  /\ pc \in {"x_dominant", "x_dominant_minor",
                   "y_dominant", "y_dominant_minor"}
           => \A a \in Axes :
                StepCount(a) > 0
                => step_delay[a]
                     = Boosted(OwnProfile(StepCount(a) - 1, TotalSteps(a)),
                               boost)
        /\ events # <<>>
           => \A a \in Axes :
                /\ Len(AxisTimes(a)) = TotalSteps(a)
                /\ \A n \in 1 .. Len(AxisTimes(a)) :
                     AxisTimes(a)[n]
                       - (IF n = 1 THEN 0 ELSE AxisTimes(a)[n - 1])
                       = Boosted(OwnProfile(n - 1, TotalSteps(a))
                                   + step_pulse_duration, boost)

\* A hardware-timed move of three X steps and one Y step: the timeline
\* opens with the Y step, at its own one-step profile.
C24_Witness ==
    /\ wave_generator
    /\ pc = "send_loop"
    /\ loc.abs_dx = 3
    /\ loc.abs_dy = 1
    /\ events[1][2] = StepPin("Y")
    /\ events[1][1] < events[2][1]

\* C25 (step_delay is mutated only transiently): when an operation has
\* completed (a coordinated move that succeeded, any move that was
\* rejected, a homing that succeeded or timed out) each axis's step_delay
\* is what it was when the operation was called.
C25_StepDelayRestored ==
    pc = "done" => step_delay = pre.delay

\* A software-timed diagonal move with acceleration that has returned: both
\* axes were stepped, each at delays of its ramp.
C25_Witness ==
    /\ pc = "done"
    /\ loc.op = "move_relative"
    /\ result = "ok"
    /\ ~wave_generator
    /\ enable_acceleration
    /\ pulses["X"] > 1
    /\ pulses["Y"] > 0
    /\ step_delay = pre.delay

\* C26 (one wave at a time): within one _send_wave_in_chunks call every
\* wave created is sent exactly once, at most one wave exists at a time,
\* the wave of a chunk has been deleted (after the busy poll) before the
\* loop goes on to the next chunk, and after a successful call no wave it
\* created remains undeleted.
C26_OneWaveAtATime ==
    /\ wv.created = Len(sent)
    /\ wv.created - wv.deleted \in {0, 1}
    /\ pc \in {"send_loop", "flush", "final_low"} => wv.created = wv.deleted
    /\ pc = "flush_wait" => wv.created = wv.deleted + 1
    /\ (pc = "done" /\ result = "ok" /\ attempts >= 1)
       => (wv.created >= 1 /\ wv.created = wv.deleted)

\* A move that went out in two waves and returned.
C26_Witness ==
    /\ pc = "done"
    /\ result = "ok"
    /\ attempts = 1
    /\ wv.created = 2
    /\ wv.deleted = 2
    /\ Len(sent) = 2

\* The target _prepare_coordinated_move returned for axis a.
TargetOf(a) == IF a = "X" THEN loc.target_x ELSE loc.target_y

\* The software-timed loops of a coordinated move are running.
InSleepLoops ==
    pc \in {"x_dominant", "x_dominant_minor", "y_dominant", "y_dominant_minor"}

C28_NoSampleAfterLastPulse ==
    /\ (/\ pc = "done"
        /\ loc.op \in {"home", "home_all"}
        /\ loc.endstop.kind = "after"
        /\ loc.endstop.k = max_position[loc.axis])
       => /\ result = "HomingTimeout"
          /\ pulses[loc.axis] = max_position[loc.axis]
          /\ is_homed[loc.axis] = pre.homed[loc.axis]
          /\ current_position[loc.axis] = pre.pos[loc.axis]
    /\ \A max_steps \in 0 .. MaxPosX :
         HomingOutcome(max_steps, max_steps, 0) = "HomingTimeout"

\* A homing of an unhomed axis away from 0 that timed out although its
\* endstop was pressed after the last pulse.
C28_Witness ==
    /\ pc = "done"
    /\ loc.op = "home"
    /\ loc.endstop.kind = "after"
    /\ loc.endstop.k = max_position[loc.axis]
    /\ result = "HomingTimeout"
    /\ ~is_homed[loc.axis]
    /\ current_position[loc.axis] > 0

\* How a hardware-timed move ends when an error leaves
\* generate_coordinated_wave.
TransmissionFailures ==
    {"ConnectionReset", "OSError", "WaveCreateFailed", "ConnectFailed"}

\* C29 (failed transmission records no position): when a hardware-timed
\* coordinated move ends with an error that propagated out of
\* generate_coordinated_wave, both axes keep the tracked position and the
\* is_homed they had at the call, whatever part of the move's pulses has
\* already been transmitted.
C29_FailureKeepsPosition ==
    (/\ pc = "done"
     /\ loc.op \in {"move_to", "move_relative"}
     /\ result \in TransmissionFailures)
    => /\ current_position = pre.pos
       /\ is_homed = pre.homed

\* A move whose re-send after a reconnect met a second connection reset
\* with X steps already transmitted.
C29_Witness ==
    /\ pc = "done"
    /\ loc.op = "move_relative"
    /\ result = "ConnectionReset"
    /\ attempts = 2
    /\ loc.dx # 0
    /\ pulses["X"] >= 1
    /\ current_position = pre.pos

\* C30 (endstop_pressed in the status): with the GPIO available, the
\* endstop_pressed entry of get_status() is true exactly when the endstop
\* input reads pressed, the reading on which home() stops pulsing and marks
\* the axis homed.
C30_StatusEndstopPressed ==
    (pc = "done" /\ loc.op = "get_status" /\ loc.gpio_available)
    => (loc.endstop_pressed <=> loc.is_pressed)

====
